---- MODULE Spec2Model ----
(***************************************************************************)
(* MistCSS (src/src/index.ts): the multi-component generator (visit,       *)
(* parseInput, render, createFile) and the single-component one            *)
(* (parseInput, render, genFile).                                          *)
(*                                                                         *)
(* Text is modelled character by character: a string is a sequence of      *)
(* one-character strings, '' is << >>.  A JavaScript object is an ordered  *)
(* map: a sequence of [key, val] entries in insertion order, which is the  *)
(* order of Object.keys for the non-numeric keys used here.                *)
(***************************************************************************)
EXTENDS Integers, Sequences, FiniteSets, TLC

----------------------------------------------------------------------------
(* Characters and literals *)

LowerChars == <<"a","b","c","d","e","f","g","h","i","j","k","l","m",
                "n","o","p","q","r","s","t","u","v","w","x","y","z">>
UpperChars == <<"A","B","C","D","E","F","G","H","I","J","K","L","M",
                "N","O","P","Q","R","S","T","U","V","W","X","Y","Z">>
DigitChars == <<"0","1","2","3","4","5","6","7","8","9">>

Range(s) == {s[i] : i \in 1..Len(s)}

\* [a-z]
IsLower(c) == c \in Range(LowerChars)
\* [a-z-]
IsAttrChar(c) == IsLower(c) \/ c = "-"
\* \w
IsWordChar(c) == c \in Range(LowerChars) \cup Range(UpperChars) \cup Range(DigitChars) \cup {"_"}
\* \s (the white space the inputs use)
IsSpace(c) == c \in {" ", "\n", "\t"}
\* . (any character but a line terminator)
IsDot(c) == c # "\n"

\* String.prototype.toUpperCase on one character
toUpperCase(c) ==
  IF IsLower(c)
    THEN UpperChars[CHOOSE i \in 1..Len(LowerChars) : LowerChars[i] = c]
    ELSE c

SCOPE == <<":","s","c","o","p","e">>
DATA  == <<"[","d","a","t","a","-">>

----------------------------------------------------------------------------
(* String operations *)

\* s.substring(i-1, j): characters i..j, '' when i > j
Sub(s, i, j) == IF i > j THEN << >> ELSE SubSeq(s, i, j)

\* s.startsWith(pat, i-1)
StartsAt(s, pat, i) ==
  /\ i >= 1
  /\ i + Len(pat) - 1 <= Len(s)
  /\ \A k \in 1..Len(pat) : s[i + k - 1] = pat[k]

\* s.endsWith(pat)
endsWith(s, pat) == Len(pat) <= Len(s) /\ StartsAt(s, pat, Len(s) - Len(pat) + 1)

\* s.indexOf(pat) + 1: the first position where pat occurs, 0 when none
IndexOf(s, pat) ==
  IF \E i \in 1..Len(s) + 1 : StartsAt(s, pat, i)
    THEN CHOOSE i \in 1..Len(s) + 1 :
           StartsAt(s, pat, i) /\ \A j \in 1..i - 1 : ~StartsAt(s, pat, j)
    ELSE 0

\* s.replace(pat, rep) with a string pattern: the FIRST occurrence only
replace(s, pat, rep) ==
  LET i == IndexOf(s, pat) IN
  IF i = 0 THEN s
  ELSE Sub(s, 1, i - 1) \o rep \o Sub(s, i + Len(pat), Len(s))

----------------------------------------------------------------------------
(* The multi-component regular expressions, src/src/index.ts:13-15 *)

\* [a-z-]+ from position i, greedy: the last position of the run (i - 1: no run)
AttrRunEnd(s, i) ==
  CHOOSE j \in (i - 1)..Len(s) :
    /\ \A k \in i..j : IsAttrChar(s[k])
    /\ (j = Len(s) \/ ~IsAttrChar(s[j + 1]))

\* [^']* from position i, greedy
ValueRunEnd(s, i) ==
  CHOOSE j \in (i - 1)..Len(s) :
    /\ \A k \in i..j : s[k] # "'"
    /\ (j = Len(s) \/ s[j + 1] = "'")

NoMatch == [ok |-> FALSE, attribute |-> << >>, value |-> << >>, end |-> 0]

\* /\[data-(?<attribute>[a-z-]+)='(?<value>[^']*)'\]/ anchored at position i.
\* The equals sign is no attribute character and the quote no value character,
\* so only the longest runs can be followed by the literals: backtracking finds
\* nothing else.
enumDataAttributeRegex(s, i) ==
  IF ~StartsAt(s, DATA, i) THEN NoMatch
  ELSE
    LET a0 == i + Len(DATA)
        a1 == AttrRunEnd(s, a0)
    IN
    IF a1 < a0 \/ ~StartsAt(s, <<"=", "'">>, a1 + 1) THEN NoMatch
    ELSE
      LET v0 == a1 + 3
          v1 == ValueRunEnd(s, v0)
      IN
      IF ~StartsAt(s, <<"'", "]">>, v1 + 1) THEN NoMatch
      ELSE [ok |-> TRUE, attribute |-> Sub(s, a0, a1),
            value |-> Sub(s, v0, v1), end |-> v1 + 2]

\* /\[data-(?<attribute>[a-z-]+)(?=\])/ anchored at position i; the lookahead
\* consumes nothing, the match ends with the attribute.
booleanDataAttributeRegex(s, i) ==
  IF ~StartsAt(s, DATA, i) THEN NoMatch
  ELSE
    LET a0 == i + Len(DATA)
        a1 == AttrRunEnd(s, a0)
    IN
    IF a1 < a0 \/ ~StartsAt(s, <<"]">>, a1 + 1) THEN NoMatch
    ELSE [ok |-> TRUE, attribute |-> Sub(s, a0, a1), value |-> << >>, end |-> a1]

\* prop.matchAll(enumDataAttributeRegex): the matches from position i on, left
\* to right, each search resuming where the previous match ended
RECURSIVE enumMatches(_, _)
enumMatches(s, i) ==
  IF i > Len(s) THEN << >>
  ELSE LET m == enumDataAttributeRegex(s, i) IN
       IF m.ok THEN <<m>> \o enumMatches(s, m.end + 1)
       ELSE enumMatches(s, i + 1)

\* prop.matchAll(booleanDataAttributeRegex)
RECURSIVE booleanMatches(_, _)
booleanMatches(s, i) ==
  IF i > Len(s) THEN << >>
  ELSE LET m == booleanDataAttributeRegex(s, i) IN
       IF m.ok THEN <<m>> \o booleanMatches(s, m.end + 1)
       ELSE booleanMatches(s, i + 1)

----------------------------------------------------------------------------
(* Naming conversions *)

\* name.replace(/(?:^|-)([a-z])/g, (_, g) => g.toUpperCase()), from position i.
\* At the start the alternative ^ is tried first and consumes nothing; anywhere
\* a hyphen followed by a letter is replaced by the letter's capital; every
\* other character, a hyphen not followed by a letter included, is copied.
RECURSIVE PascalFrom(_, _)
PascalFrom(s, i) ==
  IF i > Len(s) THEN << >>
  ELSE IF i = 1 /\ IsLower(s[1])
    THEN <<toUpperCase(s[1])>> \o PascalFrom(s, 2)
  ELSE IF s[i] = "-" /\ i < Len(s) /\ IsLower(s[i + 1])
    THEN <<toUpperCase(s[i + 1])>> \o PascalFrom(s, i + 2)
  ELSE <<s[i]>> \o PascalFrom(s, i + 1)

\* lines 46-48: strip the markers '(.' and ')' (first occurrence of each), then
\* convert to PascalCase
toPascalCase(prop) ==
  PascalFrom(replace(replace(prop, <<"(", ".">>, << >>), <<")">>, << >>), 1)

\* attribute.replace(/-([a-z])/g, (g) => g[1]?.toUpperCase() ?? ''), from i
RECURSIVE CamelFrom(_, _)
CamelFrom(s, i) ==
  IF i > Len(s) THEN << >>
  ELSE IF s[i] = "-" /\ i < Len(s) /\ IsLower(s[i + 1])
    THEN <<toUpperCase(s[i + 1])>> \o CamelFrom(s, i + 2)
  ELSE <<s[i]>> \o CamelFrom(s, i + 1)

\* lines 81-84
toCamelCase(attribute) == CamelFrom(attribute, 1)

----------------------------------------------------------------------------
(* JavaScript objects as ordered maps *)

\* Object.keys(obj)
Keys(obj) == [i \in 1..Len(obj) |-> obj[i].key]

\* Object.hasOwn(obj, k)
HasOwn(obj, k) == \E i \in 1..Len(obj) : obj[i].key = k

\* obj[k] for an own key
Own(obj, k) == obj[CHOOSE i \in 1..Len(obj) : obj[i].key = k].val

\* obj[k] = v: an existing key keeps its place, a new key goes last
SetKey(obj, k, v) ==
  IF HasOwn(obj, k)
    THEN [i \in 1..Len(obj) |-> IF obj[i].key = k THEN [key |-> k, val |-> v] ELSE obj[i]]
    ELSE Append(obj, [key |-> k, val |-> v])

\* The attribute names an object literal {} inherits from Object.prototype and
\* that the attribute patterns can produce: data[k] is a function, hence truthy,
\* for these although data has no such key of its own (lines 49, 87, 103).
ObjectPrototypeKeys ==
  { <<"c","o","n","s","t","r","u","c","t","o","r">>,
    <<"t","o","S","t","r","i","n","g">>,
    <<"v","a","l","u","e","O","f">>,
    <<"t","o","L","o","c","a","l","e","S","t","r","i","n","g">>,
    <<"h","a","s","O","w","n","P","r","o","p","e","r","t","y">>,
    <<"i","s","P","r","o","t","o","t","y","p","e","O","f">>,
    <<"p","r","o","p","e","r","t","y","I","s","E","n","u","m","e","r","a","b","l","e">> }

\* whether data[k] is truthy: an own entry (a list or true) or an inherited one
Truthy(data, k) == HasOwn(data, k) \/ k \in ObjectPrototypeKeys

\* The two variants of a data entry: string[] and boolean (line 10)
EnumOf(values) == [kind |-> "enum", values |-> values]
Boolean == [kind |-> "bool", values |-> << >>]

IsEnum(data, k) == HasOwn(data, k) /\ Own(data, k).kind = "enum"
IsBoolean(data, k) == HasOwn(data, k) /\ Own(data, k).kind = "bool"

----------------------------------------------------------------------------
(* parseInput, multi-component: the body of the loop over the nodes *)

\* pushEnum without the test !attr.includes(value)
pushEnumWithoutIncludes(data, k, value) ==
  LET d1 == IF Truthy(data, k) THEN data ELSE SetKey(data, k, EnumOf(<< >>)) IN
  IF IsEnum(d1, k)
    THEN SetKey(d1, k, EnumOf(Append(Own(d1, k).values, value)))
    ELSE d1

\* lines 86-91, for one enum match under key k:
\*   data[k] ||= []; attr = data[k]; if (Array.isArray(attr) && !attr.includes(value)) attr.push(value)
pushEnum(data, k, value) ==
  LET d1 == IF Truthy(data, k) THEN data ELSE SetKey(data, k, EnumOf(<< >>)) IN
  IF IsEnum(d1, k) /\ value \notin Range(Own(d1, k).values)
    THEN SetKey(d1, k, EnumOf(Append(Own(d1, k).values, value)))
    ELSE d1

\* lines 72-93: the loop over the enum matches, the key camelCased
RECURSIVE enumScan(_, _, _)
enumScan(data, ms, i) ==
  IF i > Len(ms) THEN data
  ELSE enumScan(pushEnum(data, toCamelCase(ms[i].attribute), ms[i].value), ms, i + 1)

\* setBoolean assigning instead of ||=: an Enum list is overwritten
setBooleanOverwrites(data, attribute) == SetKey(data, attribute, Boolean)

\* line 103, for one boolean match: data[attribute] ||= true, the attribute
\* name as matched
setBoolean(data, attribute) ==
  IF Truthy(data, attribute) THEN data ELSE SetKey(data, attribute, Boolean)

\* lines 96-105: the loop over the boolean matches
RECURSIVE booleanScan(_, _, _)
booleanScan(data, ms, i) ==
  IF i > Len(ms) THEN data
  ELSE booleanScan(setBoolean(data, ms[i].attribute), ms, i + 1)

\* line 66: prop.replace(':scope', '')
parseTag(prop) == replace(prop, SCOPE, << >>)

\* lines 64-105: a rule's selector applied to the current component
parseRule(component, prop) ==
  IF endsWith(prop, SCOPE)
    THEN [component EXCEPT !.tag = parseTag(prop)]
    ELSE [component EXCEPT !.data =
            booleanScan(enumScan(component.data, enumMatches(prop, 1), 1),
                        booleanMatches(prop, 1), 1)]

\* whether a rule node gets as far as the scans of its selector (lines 55-68)
ReachesScans(comps, nm, node) ==
  /\ node.type = "rule"
  /\ node.props # << >>
  /\ nm.defined
  /\ HasOwn(comps, nm.value)
  /\ ~endsWith(node.props[1], SCOPE)

\* ruleNode applying the selector to every registered component
ruleNodeOnEveryComponent(comps, nm, node) ==
  IF node.props = << >> \/ ~nm.defined THEN comps
  ELSE [i \in 1..Len(comps) |->
          [key |-> comps[i].key, val |-> parseRule(comps[i].val, node.props[1])]]

\* lines 54-106: the Components map after a rule node
ruleNode(comps, nm, node) ==
  IF node.props = << >> \/ ~nm.defined THEN comps
  ELSE IF ~HasOwn(comps, nm.value) THEN comps
  ELSE SetKey(comps, nm.value, parseRule(Own(comps, nm.value), node.props[1]))

\* line 49
EmptyComponent == [tag |-> << >>, data |-> << >>]

\* scopeNode deleting the key before it sets it: a re-declared name moves last
scopeNodeReinserts(comps, node) ==
  Append(SelectSeq(comps, LAMBDA e : e.key # toPascalCase(node.props[1])),
         [key |-> toPascalCase(node.props[1]), val |-> EmptyComponent])

\* lines 46-49: the Components map after a scope node with a first prop
scopeNode(comps, node) == SetKey(comps, toPascalCase(node.props[1]), EmptyComponent)

----------------------------------------------------------------------------
(* render, multi-component, lines 112-165.  The generated text is kept as   *)
(* its parts: one definition per key of the Components map, in key order,   *)
(* each with the component's name, its tag and one prop per data key.       *)

\* lines 112-125
renderProps(component) ==
  [i \in 1..Len(component.data) |->
     [attribute |-> component.data[i].key, type |-> component.data[i].val]]

\* lines 127-154
renderComponent(comps, key) ==
  [name |-> key, tag |-> Own(comps, key).tag, props |-> renderProps(Own(comps, key))]

\* lines 156-165
render(moduleName, comps) ==
  [import |-> moduleName,
   definitions |-> [i \in 1..Len(comps) |-> renderComponent(comps, Keys(comps)[i])]]

\* path.basename(filename, ext) for a filename without directories
basename(filename, ext) ==
  IF endsWith(filename, ext) /\ Len(filename) > Len(ext)
    THEN Sub(filename, 1, Len(filename) - Len(ext))
    ELSE filename

DotCss     == <<".","c","s","s">>
DotTsx     == <<".","t","s","x">>
DotMistCss == <<".","m","i","s","t">> \o DotCss

\* the file name the drivers are called with
Filename == <<"u","i">> \o DotMistCss

----------------------------------------------------------------------------
(* The nodes parseInput receives from visit(compile(input)), line 38: the   *)
(* tokenizer is external, so the loop draws each next node from the node    *)
(* kinds below.                                                             *)

Chars_s   == <<"s">>
Chars_isa == <<"i","s","-","a">>
Chars_ctor == <<"c","o","n","s","t","r","u","c","t","o","r">>
Chars_x   == <<"x">>
Chars_y   == <<"y">>

\* [data-<attribute>='<value>']
EnumMatcher(attribute, value) ==
  DATA \o attribute \o <<"=", "'">> \o value \o <<"'", "]">>
\* [data-<attribute>]
BareMatcher(attribute) == DATA \o attribute \o <<"]">>

RuleSelectors ==
  { <<"p">> \o SCOPE,
    <<"a">> \o SCOPE \o <<">","b">> \o SCOPE,
    EnumMatcher(Chars_s, Chars_x) \o BareMatcher(Chars_s) \o SCOPE,
    EnumMatcher(Chars_s, Chars_x),
    EnumMatcher(Chars_s, Chars_y) \o EnumMatcher(Chars_s, Chars_x) \o EnumMatcher(Chars_s, Chars_y),
    BareMatcher(Chars_s),
    EnumMatcher(Chars_s, Chars_x) \o BareMatcher(Chars_s),
    BareMatcher(Chars_s) \o EnumMatcher(Chars_s, Chars_y),
    BareMatcher(Chars_s) \o EnumMatcher(Chars_isa, Chars_y),
    EnumMatcher(Chars_isa, Chars_x),
    BareMatcher(Chars_isa),
    EnumMatcher(Chars_ctor, Chars_x),
    BareMatcher(Chars_ctor),
    <<".","k">> }

ScopeProps ==
  { <<"(",".","a",")">>,
    <<"(",".","-","a",")">>,
    <<"(",".","b","-","c",")">>,
    <<"(",".","b","-","-","c",")">> }

\* the nodes visit can return: a recognized type and a props list, which may
\* be empty (lines 22-23)
Nodes ==
  {[type |-> "@scope", props |-> <<p>>] : p \in ScopeProps}
    \cup {[type |-> "rule", props |-> <<p>>] : p \in RuleSelectors}
    \cup {[type |-> ty, props |-> << >>] : ty \in {"@scope", "rule"}}

\* how many nodes one parseInput run processes
MaxNodes == 3

----------------------------------------------------------------------------
(* The single-component variant, lines 185-229 *)

IsQuote(c) == c \in {"'", "\""}

\* \s* from position i, greedy: the last position of the run
SpaceRunEnd(s, i) ==
  CHOOSE j \in (i - 1)..Len(s) :
    /\ \A k \in i..j : IsSpace(s[k])
    /\ (j = Len(s) \/ ~IsSpace(s[j + 1]))

\* \w* from position i, greedy
WordRunEnd(s, i) ==
  CHOOSE j \in (i - 1)..Len(s) :
    /\ \A k \in i..j : IsWordChar(s[k])
    /\ (j = Len(s) \/ ~IsWordChar(s[j + 1]))

\* /(?<tag>\w+):scope/ anchored at position i
TagAt(s, i) ==
  /\ i <= Len(s)
  /\ IsWordChar(s[i])
  /\ StartsAt(s, SCOPE, WordRunEnd(s, i) + 1)

\* tagRegex.exec(input)?.groups?.['tag'], line 194: the leftmost match
tagRegex(s) ==
  IF \E i \in 1..Len(s) : TagAt(s, i)
    THEN LET i == CHOOSE i \in 1..Len(s) : TagAt(s, i) /\ \A j \in 1..i - 1 : ~TagAt(s, j)
         IN [ok |-> TRUE, tag |-> Sub(s, i, WordRunEnd(s, i))]
    ELSE [ok |-> FALSE, tag |-> << >>]

\* \s*\] at position t
SpacesBracketAt(s, t) ==
  LET e == SpaceRunEnd(s, t) IN e + 1 <= Len(s) /\ s[e + 1] = "]"

\* ["']?\s*\] at position t: the quote is taken when there is one
TailAt(s, t) ==
  \/ t <= Len(s) /\ IsQuote(s[t]) /\ SpacesBracketAt(s, t + 1)
  \/ SpacesBracketAt(s, t)

\* where the match of ["']?\s*\] at position t ends
TailEnd(s, t) ==
  IF t <= Len(s) /\ IsQuote(s[t]) /\ SpacesBracketAt(s, t + 1)
    THEN SpaceRunEnd(s, t + 1) + 1
    ELSE SpaceRunEnd(s, t) + 1

\* (?<value>.*?) from v0, lazy: the ends that let the rest of the pattern match
ValueEnds(s, v0) ==
  {v1 \in (v0 - 1)..Len(s) :
     (\A k \in v0..v1 : IsDot(s[k])) /\ TailAt(s, v1 + 1)}

Min(S) == CHOOSE x \in S : \A y \in S : x <= y

\* \s*=\s*["']?(?<value>.*?)["']?\s*\] at position p.  The greedy choices (all
\* the white space, the opening quote) are tried first, and whenever a shorter
\* choice would let the rest match, so does the greedy one.
RestAt(s, p) ==
  LET q == SpaceRunEnd(s, p) + 1 IN
  IF ~(q <= Len(s) /\ s[q] = "=") THEN NoMatch
  ELSE
    LET r  == SpaceRunEnd(s, q + 1) + 1
        v0 == IF r <= Len(s) /\ IsQuote(s[r]) THEN r + 1 ELSE r
        ends == ValueEnds(s, v0)
    IN
    IF ends = {} THEN NoMatch
    ELSE [ok |-> TRUE, attribute |-> << >>,
          value |-> Sub(s, v0, Min(ends)), end |-> TailEnd(s, Min(ends) + 1)]

\* /\[\s*data-(?<attribute>.*?)\s*=\s*["']?(?<value>.*?)["']?\s*\]/ anchored at
\* position i: the attribute is the shortest text after which the rest matches
enumDataAttributeRegexSingle(s, i) ==
  IF ~(i <= Len(s) /\ s[i] = "[") THEN NoMatch
  ELSE
    LET j  == SpaceRunEnd(s, i + 1) + 1
        a0 == j + 5
        ends == {a1 \in (a0 - 1)..Len(s) :
                   (\A k \in a0..a1 : IsDot(s[k])) /\ RestAt(s, a1 + 1).ok}
    IN
    IF ~StartsAt(s, <<"d","a","t","a","-">>, j) \/ ends = {} THEN NoMatch
    ELSE [RestAt(s, Min(ends) + 1) EXCEPT !.attribute = Sub(s, a0, Min(ends))]

\* /\[\s*data-(?<attribute>.\w*)\s*\]/ anchored at position i
booleanDataAttributeRegexSingle(s, i) ==
  IF ~(i <= Len(s) /\ s[i] = "[") THEN NoMatch
  ELSE
    LET j  == SpaceRunEnd(s, i + 1) + 1
        a0 == j + 5
        a1 == WordRunEnd(s, a0 + 1)
    IN
    IF StartsAt(s, <<"d","a","t","a","-">>, j) /\ a0 <= Len(s) /\ IsDot(s[a0])
       /\ SpacesBracketAt(s, a1 + 1)
      THEN [ok |-> TRUE, attribute |-> Sub(s, a0, a1), value |-> << >>,
            end |-> SpaceRunEnd(s, a1 + 1) + 1]
      ELSE NoMatch

\* input.matchAll(enumDataAttributeRegex), line 202
RECURSIVE enumMatchesSingle(_, _)
enumMatchesSingle(s, i) ==
  IF i > Len(s) THEN << >>
  ELSE LET m == enumDataAttributeRegexSingle(s, i) IN
       IF m.ok THEN <<m>> \o enumMatchesSingle(s, m.end + 1)
       ELSE enumMatchesSingle(s, i + 1)

\* input.matchAll(booleanDataAttributeRegex), line 219
RECURSIVE booleanMatchesSingle(_, _)
booleanMatchesSingle(s, i) ==
  IF i > Len(s) THEN << >>
  ELSE LET m == booleanDataAttributeRegexSingle(s, i) IN
       IF m.ok THEN <<m>> \o booleanMatchesSingle(s, m.end + 1)
       ELSE booleanMatchesSingle(s, i + 1)

\* lines 202-216: the loop over the enum matches, the attribute as matched;
\* its body is the statements of lines 86-91
RECURSIVE enumScanSingle(_, _, _)
enumScanSingle(data, ms, i) ==
  IF i > Len(ms) THEN data
  ELSE enumScanSingle(pushEnum(data, ms[i].attribute, ms[i].value), ms, i + 1)

\* lines 190-229: the ParsedInput, or the failure of line 196
parseInputSingle(input) ==
  IF ~tagRegex(input).ok
    THEN [threw |-> TRUE, tag |-> << >>, data |-> << >>]
    ELSE [threw |-> FALSE,
          tag |-> tagRegex(input).tag,
          data |-> booleanScan(enumScanSingle(<< >>, enumMatchesSingle(input, 1), 1),
                               booleanMatchesSingle(input, 1), 1)]

\* lines 231-267: one definition, named after the module
renderSingle(moduleName, parsedInput) ==
  [import |-> moduleName,
   definitions |-> <<[name |-> moduleName, tag |-> parsedInput.tag,
                      props |-> renderProps(parsedInput)]>>]

----------------------------------------------------------------------------
(* The inputs of the single-component variant: texts put together from the  *)
(* pieces below.                                                            *)

Pieces ==
  { <<"p">> \o SCOPE,
    EnumMatcher(Chars_s, Chars_x),
    EnumMatcher(Chars_s, Chars_y),
    <<"[","d","a","t","a","-","s","=","\"","x","\"","]">>,
    <<"[","d","a","t","a","-","b","]">>,
    <<"\n">> }

\* how many pieces a text has at most
MaxPieces == 3

RECURSIVE TextsOf(_)
TextsOf(n) ==
  IF n = 0 THEN {<< >>}
  ELSE {<< >>} \cup {p \o rest : p \in Pieces, rest \in TextsOf(n - 1)}

Texts == TextsOf(MaxPieces)

----------------------------------------------------------------------------
(* State *)

VARIABLES
  fn,          \* the function running: "none", "createFile", "genFile", "visit"
  pc,          \* its position: "idle", "call", "parse", "render", "write", "done", "failed"
  error,       \* what was thrown to the caller: "none", "fs", "ParseFailure"
  input,       \* genFile: the text read; visit: the forest
  components,  \* parseInput (multi): the Components map
  name,        \* parseInput (multi): the current component's name, line 37
  parsedInput, \* genFile: the ParsedInput
  data,        \* the drivers' rendered text
  written,     \* the output file
  result,      \* visit: the returned list
  count,       \* history: the nodes the loop of parseInput has processed
  last,        \* history: the node processed last
  declared,    \* history: the first props of the scope nodes processed
  matched,     \* history: per component, the matches its rules have been
               \* scanned for since its last scope declaration
  steps        \* history: the stages the driver has completed

vars == <<fn, pc, error, input, components, name, parsedInput, data, written,
          result, count, last, declared, matched, steps>>

Undefined == [defined |-> FALSE, value |-> << >>]
Defined(v) == [defined |-> TRUE, value |-> v]

NoNode == [type |-> "none", props |-> << >>]
NoOutput == [import |-> << >>, definitions |-> << >>]
NoFile == [exists |-> FALSE, path |-> << >>, data |-> NoOutput]
NoParsedInput == [threw |-> FALSE, tag |-> << >>, data |-> << >>]

Idle ==
  /\ error = "none"
  /\ components = << >>
  /\ name = Undefined
  /\ parsedInput = NoParsedInput
  /\ data = NoOutput
  /\ written = NoFile
  /\ result = << >>
  /\ count = 0
  /\ last = NoNode
  /\ declared = << >>
  /\ matched = << >>
  /\ steps = << >>

Init ==
  /\ fn = "none"
  /\ pc = "idle"
  /\ input = << >>
  /\ Idle

----------------------------------------------------------------------------
(* createFile, lines 167-175, with parseInput's loop, lines 39-107 *)

\* line 168: fs.readFileSync returns the text or throws
createFile_read ==
  /\ fn = "none" /\ pc = "idle"
  /\ fn' = "createFile"
  /\ \/ pc' = "parse" /\ steps' = Append(steps, "read") /\ error' = error
     \/ pc' = "failed" /\ error' = "fs" /\ steps' = steps
  /\ UNCHANGED <<input, components, name, parsedInput, data, written, result,
                 count, last, declared, matched>>

\* the matches of a selector in the order the scans meet them, the enum scan
\* first (lines 70-105), each as [kind, attribute, value]
ScanLog(prop) ==
  LET es == enumMatches(prop, 1)
      bs == booleanMatches(prop, 1)
  IN [i \in 1..Len(es) |->
        [kind |-> "enum", attribute |-> es[i].attribute, value |-> es[i].value]]
     \o [i \in 1..Len(bs) |->
        [kind |-> "bool", attribute |-> bs[i].attribute, value |-> << >>]]

\* lines 41-51: a scope node.  Without a first prop parseInput throws, and
\* createFile with it.
parseInput_scope(node) ==
  /\ fn = "createFile" /\ pc = "parse" /\ count < MaxNodes
  /\ node.type = "@scope"
  /\ count' = count + 1
  /\ last' = node
  /\ IF node.props = << >>
       THEN /\ pc' = "failed"
            /\ error' = "ParseFailure"
            /\ UNCHANGED <<components, name, declared, matched>>
       ELSE /\ name' = Defined(toPascalCase(node.props[1]))
            /\ components' = scopeNode(components, node)
            /\ declared' = Append(declared, node.props[1])
            /\ matched' = SetKey(matched, toPascalCase(node.props[1]), << >>)
            /\ UNCHANGED <<pc, error>>
  /\ UNCHANGED <<fn, input, parsedInput, data, written, result, steps>>

\* lines 54-106: a rule node
parseInput_rule(node) ==
  /\ fn = "createFile" /\ pc = "parse" /\ count < MaxNodes
  /\ node.type = "rule"
  /\ count' = count + 1
  /\ last' = node
  /\ components' = ruleNode(components, name, node)
  /\ matched' = IF ReachesScans(components, name, node)
                  THEN SetKey(matched, name.value,
                              Own(matched, name.value) \o ScanLog(node.props[1]))
                  ELSE matched
  /\ UNCHANGED <<fn, pc, error, input, name, parsedInput, data, written, result,
                 declared, steps>>

\* line 109: the list is exhausted, parseInput returns the map
parseInput_return ==
  /\ fn = "createFile" /\ pc = "parse"
  /\ pc' = "render"
  /\ steps' = Append(steps, "parse")
  /\ UNCHANGED <<fn, error, input, components, name, parsedInput, data, written,
                 result, count, last, declared, matched>>

\* lines 171-172
createFile_render ==
  /\ fn = "createFile" /\ pc = "render"
  /\ data' = render(basename(Filename, DotMistCss), components)
  /\ pc' = "write"
  /\ steps' = Append(steps, "render")
  /\ UNCHANGED <<fn, error, input, components, name, parsedInput, written, result,
                 count, last, declared, matched>>

\* createFile_write as a finally clause would run it: whatever the stage reached
createFile_writeInFinally ==
  /\ fn = "createFile" /\ pc \in {"parse", "render", "write"}
  /\ written' = [exists |-> TRUE, path |-> replace(Filename, DotCss, DotTsx),
                 data |-> data]
  /\ pc' = "done"
  /\ steps' = Append(steps, "write")
  /\ UNCHANGED <<fn, error, input, components, name, parsedInput, data, result,
                 count, last, declared, matched>>

\* line 174: fs.writeFileSync writes the file or throws
createFile_write ==
  /\ fn = "createFile" /\ pc = "write"
  /\ \/ /\ written' = [exists |-> TRUE, path |-> replace(Filename, DotCss, DotTsx),
                       data |-> data]
        /\ pc' = "done"
        /\ steps' = Append(steps, "write")
        /\ error' = error
     \/ /\ pc' = "failed"
        /\ error' = "fs"
        /\ UNCHANGED <<written, steps>>
  /\ UNCHANGED <<fn, input, components, name, parsedInput, data, result,
                 count, last, declared, matched>>

----------------------------------------------------------------------------
(* genFile, lines 269-275 *)

\* line 270
genFile_read ==
  /\ fn = "none" /\ pc = "idle"
  /\ fn' = "genFile"
  /\ \/ \E text \in Texts :
          /\ input' = text
          /\ pc' = "parse"
          /\ steps' = Append(steps, "read")
          /\ error' = error
     \/ pc' = "failed" /\ error' = "fs" /\ UNCHANGED <<input, steps>>
  /\ UNCHANGED <<components, name, parsedInput, data, written, result,
                 count, last, declared, matched>>

\* line 271: parseInput returns the ParsedInput or throws
genFile_parse ==
  /\ fn = "genFile" /\ pc = "parse"
  /\ IF parseInputSingle(input).threw
       THEN /\ pc' = "failed"
            /\ error' = "ParseFailure"
            /\ UNCHANGED <<parsedInput, steps>>
       ELSE /\ parsedInput' = parseInputSingle(input)
            /\ pc' = "render"
            /\ steps' = Append(steps, "parse")
            /\ error' = error
  /\ UNCHANGED <<fn, input, components, name, data, written, result,
                 count, last, declared, matched>>

\* lines 272-273
genFile_render ==
  /\ fn = "genFile" /\ pc = "render"
  /\ data' = renderSingle(basename(Filename, DotMistCss), parsedInput)
  /\ pc' = "write"
  /\ steps' = Append(steps, "render")
  /\ UNCHANGED <<fn, error, input, components, name, parsedInput, written, result,
                 count, last, declared, matched>>

\* line 274
genFile_write ==
  /\ fn = "genFile" /\ pc = "write"
  /\ \/ /\ written' = [exists |-> TRUE, path |-> Filename \o DotTsx, data |-> data]
        /\ pc' = "done"
        /\ steps' = Append(steps, "write")
        /\ error' = error
     \/ /\ pc' = "failed"
        /\ error' = "fs"
        /\ UNCHANGED <<written, steps>>
  /\ UNCHANGED <<fn, input, components, name, parsedInput, data, result,
                 count, last, declared, matched>>

Next ==
  \/ createFile_read
  \/ \E node \in Nodes : parseInput_scope(node)
  \/ \E node \in Nodes : parseInput_rule(node)
  \/ parseInput_return
  \/ createFile_render
  \/ createFile_write
  \/ genFile_read
  \/ genFile_parse
  \/ genFile_render
  \/ genFile_write

Spec == Init /\ [][Next]_vars

----------------------------------------------------------------------------
(* visit, lines 18-32, on the forests the tokenizer can hand it *)

\* visit descending only below the nodes it keeps
RECURSIVE visitBelowKeptOnly(_)
visitBelowKeptOnly(nodes) ==
  IF nodes = << >> THEN << >>
  ELSE
    LET node == Head(nodes)
        kept == node.type \in {"@scope", "rule"} /\ node.props.present
        self == IF kept THEN <<[type |-> node.type, props |-> node.props.list]>> ELSE << >>
        below == IF kept /\ node.children.present
                   THEN visitBelowKeptOnly(node.children.list) ELSE << >>
    IN self \o below \o visitBelowKeptOnly(Tail(nodes))

\* lines 21-31.  A node's props and children are each an array or absent
\* (Array.isArray), which the node records as [present, list].
RECURSIVE visit(_)
visit(nodes) ==
  IF nodes = << >> THEN << >>
  ELSE
    LET node == Head(nodes)
        self == IF node.type \in {"@scope", "rule"} /\ node.props.present
                  THEN <<[type |-> node.type, props |-> node.props.list]>>
                  ELSE << >>
        below == IF node.children.present THEN visit(node.children.list) ELSE << >>
    IN self \o below \o visit(Tail(nodes))

Absent == [present |-> FALSE, list |-> << >>]
Present(list) == [present |-> TRUE, list |-> list]

\* the type and props of the nodes that carry a children array: the two
\* recognized types, a recognized type without props, another type
Labels ==
  { [type |-> "@scope", props |-> Present(<< <<"p">> >>)],
    [type |-> "rule",   props |-> Present(<< <<"q">> >>)],
    [type |-> "rule",   props |-> Absent],
    [type |-> "@media", props |-> Present(<< <<"r">> >>)] }

\* a declaration: its children are no array
Declaration == [type |-> "decl", props |-> Present(<< <<"d">> >>), children |-> Absent]

\* how many nodes a forest has at most
MaxTreeNodes == 3

\* the forests of exactly n nodes
RECURSIVE ForestsOfSize(_)
ForestsOfSize(n) ==
  IF n = 0 THEN {<< >>}
  ELSE {<<Declaration>> \o rest : rest \in ForestsOfSize(n - 1)}
       \cup UNION {
         { <<[type |-> l.type, props |-> l.props, children |-> Present(f)]>> \o rest :
             l \in Labels, f \in ForestsOfSize(k - 1), rest \in ForestsOfSize(n - k) } :
         k \in 1..n }

Forests == UNION {ForestsOfSize(n) : n \in 0..MaxTreeNodes}

InitVisit ==
  /\ fn = "visit"
  /\ pc = "call"
  /\ input \in Forests
  /\ Idle

visit_call ==
  /\ fn = "visit" /\ pc = "call"
  /\ result' = visit(input)
  /\ pc' = "done"
  /\ UNCHANGED <<fn, error, input, components, name, parsedInput, data, written,
                 count, last, declared, matched, steps>>

NextVisit == visit_call

SpecVisit == InitVisit /\ [][NextVisit]_vars

----------------------------------------------------------------------------
(* Properties *)

\* a sequence without its repeats: each value where it first occurs
RECURSIVE FirstSeen(_)
FirstSeen(s) ==
  IF s = << >> THEN << >>
  ELSE LET r == FirstSeen(SubSeq(s, 1, Len(s) - 1)) IN
       IF s[Len(s)] \in Range(r) THEN r ELSE Append(r, s[Len(s)])

NoDuplicates(s) == \A i, j \in 1..Len(s) : s[i] = s[j] => i = j

IsPrefix(s, u) == Len(s) <= Len(u) /\ \A i \in 1..Len(s) : s[i] = u[i]

\* the values of the enum matches logged under key k, in match order; the
\* multi-component variant stores camelCased keys
RECURSIVE ValuesFor(_, _)
ValuesFor(log, k) ==
  IF log = << >> THEN << >>
  ELSE LET e == log[Len(log)]
           r == ValuesFor(SubSeq(log, 1, Len(log) - 1), k)
       IN IF e.kind = "enum" /\ toCamelCase(e.attribute) = k THEN Append(r, e.value) ELSE r

\* the values the single-component enum pattern matches for attribute k
RECURSIVE ValuesForSingle(_, _)
ValuesForSingle(ms, k) ==
  IF ms = << >> THEN << >>
  ELSE LET r == ValuesForSingle(SubSeq(ms, 1, Len(ms) - 1), k) IN
       IF ms[Len(ms)].attribute = k THEN Append(r, ms[Len(ms)].value) ELSE r

\* an Enum list holds no value twice and is the matched values, each where
\* it first occurs
ListIs(values, matchedValues) ==
  NoDuplicates(values) /\ values = FirstSeen(matchedValues)

\* C1: in both variants every Enum list holds no value twice, and holds the
\* values matched for its attribute (multi-component: for its component since
\* the component's last scope declaration; single-component: over the whole
\* input) in the order in which they were first matched.
C1_EnumListsFirstSeen ==
  /\ fn = "createFile" =>
       \A i \in 1..Len(components) :
         LET d == components[i].val.data IN
         \A j \in 1..Len(d) :
           d[j].val.kind = "enum" =>
             ListIs(d[j].val.values,
                    ValuesFor(Own(matched, components[i].key), d[j].key))
  /\ fn = "genFile" /\ pc \in {"render", "write", "done"} =>
       LET d == parsedInput.data IN
       \A j \in 1..Len(d) :
         d[j].val.kind = "enum" =>
           ListIs(d[j].val.values,
                  ValuesForSingle(enumMatchesSingle(input, 1), d[j].key))

\* a component whose rules matched s='y', s='x', s='y' and whose list is y, x
C1_Witness ==
  /\ fn = "createFile"
  /\ name.defined
  /\ ValuesFor(Own(matched, name.value), Chars_s) = <<Chars_y, Chars_x, Chars_y>>
  /\ IsEnum(Own(components, name.value).data, Chars_s)
  /\ Own(Own(components, name.value).data, Chars_s).values = <<Chars_y, Chars_x>>

\* C3: the keys of the Components map, and with them the definitions render
\* emits, are the PascalCase conversions of the declared scope names, each
\* once, in the order of their first declarations.
C3_KeysInFirstDeclarationOrder ==
  fn = "createFile" =>
    /\ Keys(components) = FirstSeen([i \in 1..Len(declared) |-> toPascalCase(declared[i])])
    /\ pc \in {"write", "done"} =>
         [i \in 1..Len(data.definitions) |-> data.definitions[i].name] = Keys(components)

\* the generated file of an input that declares a, then b-c, then a again
C3_Witness ==
  /\ fn = "createFile"
  /\ pc = "done"
  /\ Len(declared) = 3
  /\ toPascalCase(declared[1]) = toPascalCase(declared[3])
  /\ toPascalCase(declared[1]) # toPascalCase(declared[2])
  /\ [i \in 1..Len(written.data.definitions) |-> written.data.definitions[i].name]
       = <<toPascalCase(declared[1]), toPascalCase(declared[2])>>

\* C6: the output file is written only after parseInput and render have both
\* completed; after a ParseFailure the call has failed and no file is written.
C6_WriteOnlyAfterParseAndRender ==
  /\ written.exists =>
       /\ steps = <<"read", "parse", "render", "write">>
       /\ error = "none"
       /\ written.data = data
       /\ fn = "createFile" => data = render(basename(Filename, DotMistCss), components)
       /\ fn = "genFile" => /\ ~parseInputSingle(input).threw
                            /\ data = renderSingle(basename(Filename, DotMistCss), parsedInput)
  /\ error = "ParseFailure" => pc = "failed" /\ ~written.exists

\* a call that failed with a ParseFailure, in either driver
C6_Witness ==
  /\ error = "ParseFailure"
  /\ pc = "failed"
  /\ ~written.exists
  /\ \/ fn = "createFile" /\ last.type = "@scope" /\ last.props = << >>
     \/ fn = "genFile" /\ ~tagRegex(input).ok

\* the entries of the Components map other than k's are the same after the step
OthersUnchanged(k) ==
  \A i \in 1..Len(components) :
    components[i].key # k =>
      /\ HasOwn(components', components[i].key)
      /\ Own(components', components[i].key) = components[i].val

\* C7: each step of parseInput's loop changes only the entry it is about.  A
\* rule before any scope declaration leaves the (empty) map as it is and
\* raises nothing; a rule with a current component changes at most that
\* component's entry; a scope declaration of N sets N's entry to the empty
\* component and leaves the others; no step of any kind removes or moves a key.
C7_StepsChangeOnlyTheirEntry ==
  [][ /\ IsPrefix(Keys(components), Keys(components'))
      /\ (fn = "createFile" /\ pc = "parse" /\ count' = count + 1) =>
           /\ (last'.type = "rule" /\ ~name.defined) =>
                /\ components = << >>
                /\ components' = components
                /\ pc' = "parse" /\ error' = "none"
           /\ (last'.type = "rule" /\ name.defined) =>
                /\ Keys(components') = Keys(components)
                /\ OthersUnchanged(name.value)
                /\ pc' = "parse" /\ error' = "none"
           /\ (last'.type = "@scope" /\ last'.props # << >>) =>
                /\ name' = Defined(toPascalCase(last'.props[1]))
                /\ Own(components', name'.value) = EmptyComponent
                /\ OthersUnchanged(name'.value)
                /\ Keys(components') \in
                     {Keys(components), Append(Keys(components), name'.value)}
    ]_vars

\* a scope declaration has just added its empty entry behind the entry of a
\* component that keeps the data a rule gave it
C7_Witness ==
  /\ fn = "createFile" /\ pc = "parse"
  /\ last.type = "@scope" /\ name.defined
  /\ Len(components) = 2
  /\ components[1].val.data # << >>
  /\ components[2] = [key |-> name.value, val |-> EmptyComponent]

----------------------------------------------------------------------------
(* visit against the tree: a node is named by its path, the child indices   *)
(* from the forest down to it.                                              *)

\* the node at a path
RECURSIVE NodeAt(_, _)
NodeAt(forest, path) ==
  IF Len(path) = 1 THEN forest[path[1]]
  ELSE NodeAt(forest[path[1]].children.list, Tail(path))

\* the paths of all the nodes of a forest
RECURSIVE Paths(_)
Paths(forest) ==
  UNION { {<<i>>} \cup {<<i>> \o q : q \in Paths(forest[i].children.list)} :
          i \in 1..Len(forest) }

\* pre-order: a node before its descendants, siblings left to right
RECURSIVE Before(_, _)
Before(p, q) ==
  IF p = << >> THEN q # << >>
  ELSE IF q = << >> THEN FALSE
  ELSE IF p[1] # q[1] THEN p[1] < q[1]
  ELSE Before(Tail(p), Tail(q))

\* a set of paths as the sequence of its members in pre-order
RECURSIVE InPreOrder(_)
InPreOrder(S) ==
  IF S = {} THEN << >>
  ELSE LET first == CHOOSE p \in S : \A q \in S \ {p} : Before(p, q)
       IN <<first>> \o InPreOrder(S \ {first})

Qualifies(node) == node.type \in {"@scope", "rule"} /\ node.props.present

QualifyingPaths(forest) == {p \in Paths(forest) : Qualifies(NodeAt(forest, p))}

\* C10: visit returns the nodes of a recognized type with a props list, each
\* once as {type, props}, in pre-order, whatever the nodes above them are.
C10_VisitIsPreOrderFilter ==
  (fn = "visit" /\ pc = "done") =>
    LET order == InPreOrder(QualifyingPaths(input)) IN
    result = [i \in 1..Len(order) |->
                [type |-> NodeAt(input, order[i]).type,
                 props |-> NodeAt(input, order[i]).props.list]]

\* a kept node below a filtered-out node, in a tree that a kept node follows
C10_Witness ==
  /\ fn = "visit" /\ pc = "done"
  /\ \E p \in QualifyingPaths(input) :
       /\ Len(p) = 2
       /\ ~Qualifies(NodeAt(input, SubSeq(p, 1, 1)))
       /\ \E q \in QualifyingPaths(input) : Len(q) = 1 /\ Before(p, q)
  /\ Len(result) = 2
  /\ result[1] # result[2]

----------------------------------------------------------------------------
(* The scans of the rule processed last *)

\* the current component
Current == Own(components, name.value)

\* the node processed last is a rule of the current component
LastIsCurrentRule ==
  /\ fn = "createFile"
  /\ last.type = "rule"
  /\ last.props # << >>
  /\ name.defined
  /\ HasOwn(components, name.value)

\* ... and its selector went through the two scans
LastWasScanned == LastIsCurrentRule /\ ~endsWith(last.props[1], SCOPE)

\* the key under which a logged match is stored
LogKey(e) == IF e.kind = "enum" THEN toCamelCase(e.attribute) ELSE e.attribute

\* the kind of the first match logged under key k ("none": no such match)
FirstKind(log, k) ==
  IF \E i \in 1..Len(log) : LogKey(log[i]) = k
    THEN log[CHOOSE i \in 1..Len(log) :
               LogKey(log[i]) = k /\ \A j \in 1..i - 1 : LogKey(log[j]) # k].kind
    ELSE "none"

\* C2 as claimed: after a rule of the current component whose selector holds a
\* bare matcher [data-N], the entry for N is Boolean, whatever else the
\* selector holds.  Stated for the selectors that are scanned and the names an
\* object literal does not inherit, and with the entry looked up under N as
\* written and under N camelCased.
C2_BareMatcherAlwaysBoolean ==
  LastWasScanned =>
    LET bs == booleanMatches(last.props[1], 1) IN
    \A i \in 1..Len(bs) :
      \/ bs[i].attribute \in ObjectPrototypeKeys
      \/ IsBoolean(Current.data, bs[i].attribute)
      \/ IsBoolean(Current.data, toCamelCase(bs[i].attribute))

\* C2, amended: after a rule of the current component whose selector does not
\* end with ':scope' and holds a bare matcher [data-N], the entry under N as
\* written is Boolean, unless the first matcher scanned for the component
\* under the key N was an enum matcher (the enum matchers of a selector are
\* all scanned before its bare ones); then the entry is that Enum list.  A
\* name inherited from Object.prototype gets no entry.
C2_BareMatcherBooleanUnlessEnumFirst ==
  LastWasScanned =>
    LET bs == booleanMatches(last.props[1], 1) IN
    \A i \in 1..Len(bs) :
      LET N == bs[i].attribute IN
      IF N \in ObjectPrototypeKeys THEN ~HasOwn(Current.data, N)
      ELSE /\ HasOwn(Current.data, N)
           /\ IsBoolean(Current.data, N)
                <=> FirstKind(Own(matched, name.value), N) = "bool"
           /\ IsEnum(Current.data, N)
                <=> FirstKind(Own(matched, name.value), N) = "enum"

\* the selector [data-s][data-s='y'] on a fresh component: the bare matcher
\* comes first in the text and the entry is the Enum list
C2_Witness ==
  /\ LastWasScanned
  /\ last.props[1] = BareMatcher(Chars_s) \o EnumMatcher(Chars_s, Chars_y)
  /\ Own(matched, name.value) = ScanLog(last.props[1])
  /\ Current.data = <<[key |-> Chars_s, val |-> EnumOf(<<Chars_y>>)]>>

\* C9 as claimed: after an enum matcher [data-N='v'] of a rule of the current
\* component was scanned, the entry under the camelCased N is an Enum list
\* that contains v.
C9_EnumMatcherAlwaysRecorded ==
  LastWasScanned =>
    LET es == enumMatches(last.props[1], 1) IN
    \A i \in 1..Len(es) :
      /\ IsEnum(Current.data, toCamelCase(es[i].attribute))
      /\ es[i].value \in Range(Own(Current.data, toCamelCase(es[i].attribute)).values)

\* C5 as claimed: every key of a data map is the camelCase conversion of the
\* attribute name of a matcher scanned for the component, enum or bare, so
\* that [data-is-a='x'] and [data-is-a] share the one key isA.
C5_KeysAreCamelCased ==
  fn = "createFile" =>
    \A i \in 1..Len(components) :
      \A j \in 1..Len(components[i].val.data) :
        \E e \in Range(Own(matched, components[i].key)) :
          components[i].val.data[j].key = toCamelCase(e.attribute)

\* C8 as claimed: a rule of the current component whose selector ends with
\* ':scope' sets the tag to the selector without that suffix and leaves the
\* data map as it was.
C8_TagIsSelectorWithoutSuffix ==
  [][ ( /\ fn = "createFile" /\ pc = "parse" /\ count' = count + 1
        /\ last'.type = "rule" /\ last'.props # << >>
        /\ name.defined /\ HasOwn(components, name.value)
        /\ endsWith(last'.props[1], SCOPE) ) =>
        /\ Own(components', name.value).tag \o SCOPE = last'.props[1]
        /\ Own(components', name.value).data = Own(components, name.value).data
    ]_vars

\* the class name of a scope declaration, the markers stripped
ClassName(prop) == replace(replace(prop, <<"(", ".">>, << >>), <<")">>, << >>)

\* a kebab-case name in PascalCase: the hyphens dropped, the first letter and
\* every letter that follows a hyphen capitalized
RECURSIVE Capitalized(_, _)
Capitalized(s, i) ==
  IF i > Len(s) THEN << >>
  ELSE IF s[i] = "-" THEN Capitalized(s, i + 1)
  ELSE IF i = 1 \/ s[i - 1] = "-" THEN <<toUpperCase(s[i])>> \o Capitalized(s, i + 1)
  ELSE <<s[i]>> \o Capitalized(s, i + 1)

\* C4 as claimed: the component name of a scope declaration holds no hyphen
\* and has the first letter and every letter after a hyphen capitalized.
C4_NameIsPascalCase ==
  (fn = "createFile" /\ last.type = "@scope" /\ last.props # << >>) =>
    /\ "-" \notin Range(name.value)
    /\ name.value = Capitalized(ClassName(last.props[1]), 1)

====
